---- MODULE Spec2Model ----
(***************************************************************************)
(* Model of the sift pipelines: MapRedirects and RedirectDocuments         *)
(* (sift/corpora/redirects.py), EntityCounts, EntityVocab and              *)
(* NamePartCounts (sift/models/links.py).                                  *)
(*                                                                         *)
(* An RDD is a bag (multiset) of records: a function from the records it   *)
(* holds to their positive multiplicity.  Pair RDDs hold <<key, value>>.   *)
(* One run of a pipeline is: prepare (the input records are loaded one by  *)
(* one), then build (one step, the whole build method).                    *)
(***************************************************************************)
EXTENDS Integers, Sequences, FiniteSets, Bags, TLC

VARIABLES
    pc,          \* "prepare" while the inputs are loaded, "done" after build
    from_rds,    \* MapRedirects: bag of <<source, target>> of the origin kb
    to_rds,      \* MapRedirects: bag of <<source, target>> of the destination kb
    rds,         \* MapRedirects.build: the cached consolidated bag (line 43)
    resolved,    \* MapRedirects.build: the bag it returns
    corpus,      \* the documents of the corpus: document id -> document
    redirects,   \* RedirectDocuments: bag of <<source, target>>
    redirected,  \* RedirectDocuments.build: the bag of documents it returns
    threshold,   \* EntityCounts.threshold
    filter_target, \* EntityCounts.filter_target
    min_rank,    \* EntityVocab.min_rank
    max_rank,    \* EntityVocab.max_rank
    counts,      \* EntityCounts.build: the bag of <<term, count>> it returns
    ranked,      \* EntityVocab.build: m before the rank filters (line 190)
    vocab,       \* EntityVocab.build: the bag of <<term, <<count, rank>>>> it returns
    max_ngram,   \* NamePartCounts.max_ngram
    lowercase,   \* NamePartCounts.lowercase
    part_counts  \* NamePartCounts.build: the bag of <<term, tag -> count>> it returns

rvars == <<from_rds, to_rds, rds, resolved>>
dvars == <<redirects, redirected>>
vparams == <<threshold, filter_target, min_rank, max_rank>>
vvars == <<vparams, counts, ranked, vocab>>
nvars == <<max_ngram, lowercase, part_counts>>
vars == <<pc, corpus, rvars, dvars, vvars, nvars>>

(***************************************************************************)
(* The pipelines are separate programs: a run of one leaves the state of   *)
(* the others as it is here.                                               *)
(***************************************************************************)
RedirectsIdle ==
    /\ from_rds = <<>> /\ to_rds = <<>> /\ rds = <<>> /\ resolved = <<>>

DocsIdle == redirects = <<>> /\ redirected = <<>>

VocabIdle ==
    /\ threshold = 0 /\ filter_target = <<>> /\ min_rank = <<>> /\ max_rank = <<>>
    /\ counts = <<>> /\ ranked = <<>> /\ vocab = <<>>

NgramsIdle == max_ngram = 2 /\ lowercase = FALSE /\ part_counts = <<>>

(***************************************************************************)
(* Values.                                                                 *)
(***************************************************************************)
\* Page ids.  "" is the empty string, which Python treats as false.
Ids == {"", "A", "B", "C"}

\* Python's None, the right slot of a left outer join that found no match.
NoValue == "<None>"

\* bool(v) for v an id or None
Truthy(v) == v # NoValue /\ v # ""

\* a or b
Or(a, b) == IF Truthy(a) THEN a ELSE b

(***************************************************************************)
(* RDD primitives (pyspark), on bags.                                      *)
(***************************************************************************)
\* rdd.filter(P), kept the records of the RDD that satisfy P
Filter(B, kept) == [e \in kept |-> B[e]]

\* rdd.distinct()
Distinct(B) == SetToBag(BagToSet(B))

\* left.leftOuterJoin(right): <<k, <<v, w>>>> for every match, <<k, <<v, None>>>>
\* for a left record without one; multiplicities multiply.
LeftOuterJoin(L, R) ==
    LET hit  == {p \in (DOMAIN L) \X (DOMAIN R) : p[1][1] = p[2][1]}
        miss == {l \in DOMAIN L : \A r \in DOMAIN R : r[1] # l[1]}
        dom  == {<<p[1][1], <<p[1][2], p[2][2]>>>> : p \in hit}
                  \cup {<<l[1], <<l[2], NoValue>>>> : l \in miss}
    IN [j \in dom |->
          IF j[2][2] = NoValue
          THEN L[<<j[1], j[2][1]>>]
          ELSE L[<<j[1], j[2][1]>>] * R[<<j[1], j[2][2]>>]]

\* left.join(right): the matches only
Join(L, R) ==
    LET hit == {p \in (DOMAIN L) \X (DOMAIN R) : p[1][1] = p[2][1]}
        dom == {<<p[1][1], <<p[1][2], p[2][2]>>>> : p \in hit}
    IN [j \in dom |-> L[<<j[1], j[2][1]>>] * R[<<j[1], j[2][2]>>]]

(***************************************************************************)
(* MapRedirects                                                            *)
(***************************************************************************)
\* map_redirects with an inner join: a miss drops the record
map_redirects_inner(source, target) ==
    Distinct(BagOfAll(LAMBDA r : <<r[2][1], Or(r[2][2], r[1])>>,
                      Join(BagOfAll(LAMBDA r : <<r[2], r[1]>>, source), target)))

\* map_redirects without the final distinct()
map_redirects_dups(source, target) ==
    BagOfAll(LAMBDA r : <<r[2][1], Or(r[2][2], r[1])>>,
             LeftOuterJoin(BagOfAll(LAMBDA r : <<r[2], r[1]>>, source), target))

\* map_redirects joining on the source instead of the target (no swap)
map_redirects_noswap(source, target) ==
    Distinct(BagOfAll(LAMBDA r : <<r[2][1], Or(r[2][2], r[1])>>,
                      LeftOuterJoin(source, target)))

map_redirects(source, target) ==
    Distinct(BagOfAll(LAMBDA r : <<r[2][1], Or(r[2][2], r[1])>>,
                      LeftOuterJoin(BagOfAll(LAMBDA r : <<r[2], r[1]>>, source),
                                    target)))

\* mapped_to with the pair it emits the wrong way round
mapped_to_swapped(f, t) ==
    BagOfAll(LAMBDA r : <<r[2][1], Or(r[2][2], r[1])>>, LeftOuterJoin(t, f))

\* build, lines 31-33
mapped_to(f, t) ==
    BagOfAll(LAMBDA r : <<Or(r[2][2], r[1]), r[2][1]>>, LeftOuterJoin(t, f))

\* build, lines 37-41
mapped_from(f, mt) ==
    LET joined == BagOfAll(LAMBDA r : <<r[2][1], r[2][2]>>,
                           LeftOuterJoin(BagOfAll(LAMBDA r : <<r[1], r[2]>>, f), mt))
    IN Filter(joined, {r \in DOMAIN joined : Truthy(r[2])})

\* build, line 43: rds = (mapped_from + mapped_to).distinct()
consolidated(f, t) ==
    Distinct(mapped_from(f, mapped_to(f, t)) (+) mapped_to(f, t))

\* build, lines 47-50
MapRedirects_build(f, t) == map_redirects(consolidated(f, t), consolidated(f, t))

\* Input records loaded so far.
MaxEdges == 3

InitRedirects ==
    /\ pc = "prepare"
    /\ from_rds = EmptyBag
    /\ to_rds = EmptyBag
    /\ rds = EmptyBag
    /\ resolved = EmptyBag
    /\ corpus = <<>>
    /\ DocsIdle /\ VocabIdle /\ NgramsIdle

\* prepare: one more record of the origin kb's redirects
LoadFrom(e) ==
    /\ pc = "prepare"
    /\ BagCardinality(from_rds) + BagCardinality(to_rds) < MaxEdges
    /\ from_rds' = from_rds (+) SetToBag({e})
    /\ UNCHANGED <<pc, to_rds, rds, resolved, corpus, dvars, vvars, nvars>>

\* prepare: one more record of the destination kb's redirects
LoadTo(e) ==
    /\ pc = "prepare"
    /\ BagCardinality(from_rds) + BagCardinality(to_rds) < MaxEdges
    /\ to_rds' = to_rds (+) SetToBag({e})
    /\ UNCHANGED <<pc, from_rds, rds, resolved, corpus, dvars, vvars, nvars>>

BuildRedirects ==
    /\ pc = "prepare"
    /\ rds' = consolidated(from_rds, to_rds)
    /\ resolved' = MapRedirects_build(from_rds, to_rds)
    /\ pc' = "done"
    /\ UNCHANGED <<from_rds, to_rds, corpus, dvars, vvars, nvars>>

NextRedirects ==
    \/ \E e \in Ids \X Ids : LoadFrom(e)
    \/ \E e \in Ids \X Ids : LoadTo(e)
    \/ BuildRedirects

SpecRedirects == InitRedirects /\ [][NextRedirects]_vars

(***************************************************************************)
(* MapRedirects: properties                                                *)
(***************************************************************************)
Sources(B) == {e[1] : e \in DOMAIN B}
EdgeIds(B) == {e[1] : e \in DOMAIN B} \cup {e[2] : e \in DOMAIN B}
Touches(e, x) == x[1] \in {e[1], e[2]} \/ x[2] \in {e[1], e[2]}

\* C1 (as stated): from_rds has (A, B) and to_rds has (B, C), with A, B, C
\* distinct and non-empty: the resolved output has (A, C).
C1_TwoHopResolved ==
    pc = "done" =>
        \A a, b, c \in Ids \ {""} :
            ( /\ Cardinality({a, b, c}) = 3
              /\ BagIn(<<a, b>>, from_rds)
              /\ BagIn(<<b, c>>, to_rds) )
            => BagIn(<<a, c>>, resolved)

\* An edge of either input whose ids occur in no other edge of either input.
NoCrossReference(e) ==
    /\ \A x \in DOMAIN from_rds : x # e => ~Touches(e, x)
    /\ \A x \in DOMAIN to_rds : x # e => ~Touches(e, x)

\* C2 (as stated): a 1-hop edge without cross-reference, from from_rds or
\* from to_rds, is in the resolved output unchanged.
C2_OneHopPreserved ==
    pc = "done" =>
        \A e \in (DOMAIN from_rds) \cup (DOMAIN to_rds) :
            NoCrossReference(e) => BagIn(e, resolved)

\* C2 (amended): a 1-hop edge of to_rds whose ids occur in no edge of
\* from_rds and in no other edge of to_rds is in the resolved output
\* unchanged; a 1-hop edge of from_rds whose ids occur in no other edge of
\* from_rds and in no edge of to_rds is not in the resolved output.
C2_OneHopOfToPreserved ==
    pc = "done" =>
        /\ \A e \in DOMAIN to_rds :
              (NoCrossReference(e) /\ ~BagIn(e, from_rds)) => BagIn(e, resolved)
        /\ \A e \in DOMAIN from_rds :
              (NoCrossReference(e) /\ ~BagIn(e, to_rds)) => ~BagIn(e, resolved)

C2_Witness ==
    /\ pc = "done"
    /\ \E e \in DOMAIN to_rds :
          /\ NoCrossReference(e) /\ ~BagIn(e, from_rds) /\ e[1] # e[2]
          /\ BagIn(e, resolved)
    /\ \E e \in DOMAIN from_rds :
          /\ NoCrossReference(e) /\ ~BagIn(e, to_rds)
          /\ ~BagIn(e, resolved)

\* C3 (as stated): every source id of an edge of from_rds or of to_rds is the
\* source of at least one pair of the resolved output.
C3_EverySourceResolvable ==
    pc = "done" =>
        \A s \in Sources(from_rds) \cup Sources(to_rds) : s \in Sources(resolved)

\* C3 (amended): every source id of an edge of to_rds that is not the source
\* of an edge of from_rds is the source of at least one pair of the resolved
\* output, and so is every source id of the consolidated set rds (a miss of
\* the left outer join in map_redirects keeps the pair with its target).
C3_SourcesOfToResolvable ==
    pc = "done" =>
        /\ \A s \in Sources(to_rds) \ Sources(from_rds) : s \in Sources(resolved)
        /\ \A s \in Sources(rds) : s \in Sources(resolved)

C3_Witness ==
    /\ pc = "done"
    /\ \E e \in DOMAIN to_rds :
          /\ e[1] \notin Sources(from_rds)
          /\ e[2] \notin Sources(rds)
          /\ BagIn(e, resolved)
    /\ from_rds # EmptyBag

\* C5: the bag MapRedirects.build returns holds no pair more than once.
C5_NoDuplicatePairs ==
    pc = "done" => \A e \in DOMAIN resolved : resolved[e] = 1

C5_Witness ==
    /\ pc = "done"
    /\ \E e \in DOMAIN to_rds : to_rds[e] > 1
    /\ \E e, x \in DOMAIN to_rds : e[1] = x[1] /\ e[2] # x[2]
    /\ Cardinality(DOMAIN resolved) > 1

\* The composition of an edge set with itself, as C10 states it.
Composed(R) ==
    {<<p[1][1], p[2][2]>> : p \in {q \in R \X R : q[1][2] = q[2][1]}}
        \cup {e \in R : e[2] \notin {x[1] : x \in R}}

\* C10: over a consolidated set rds of non-empty ids, map_redirects(rds, rds)
\* is exactly the duplicate-free set Composed(rds); it is computed in the one
\* step of build, cycle or not.
C10_SelfComposition ==
    (pc = "done" /\ "" \notin EdgeIds(rds)) =>
        /\ rds = SetToBag(BagToSet(rds))
        /\ resolved = SetToBag(Composed(BagToSet(rds)))

C10_Witness ==
    /\ pc = "done"
    /\ "" \notin EdgeIds(rds)
    /\ {<<"A", "B">>, <<"B", "A">>, <<"B", "C">>} \subseteq DOMAIN rds
    /\ BagIn(<<"A", "C">>, resolved)
    /\ BagIn(<<"A", "A">>, resolved)

(***************************************************************************)
(* RedirectDocuments                                                       *)
(*                                                                         *)
(* A document is here its list of link targets, the one field build        *)
(* rewrites; corpus maps each document id to it, so ids are unique.        *)
(***************************************************************************)
DocIds == {"d1", "d2"}

Range(s) == {s[i] : i \in DOMAIN s}

RECURSIVE SumOver(_, _)
SumOver(f, S) ==
    IF S = {} THEN 0
    ELSE LET x == CHOOSE y \in S : TRUE IN f[x] + SumOver(f, S \ {x})

\* build, line 86: articles = corpus.map(lambda d: (d['_id'], d))
articles(c) == SetToBag({<<d, c[d]>> : d \in DOMAIN c})

\* build, lines 94-95: (target, document id) for the set of targets of each document
link_pairs(c) == SetToBag({p \in Ids \X (DOMAIN c) : p[1] \in Range(c[p[2]])})

\* build, lines 96-97: (document id, (target, redirect target or target))
redirect_pairs(c, r) ==
    BagOfAll(LAMBDA x : <<x[2][1], <<x[1], IF Truthy(x[2][2]) THEN x[2][2] ELSE x[1]>>>>,
             LeftOuterJoin(link_pairs(c), r))

\* dict(pairs): one value per key; which one, when a key has several, is the
\* order of the group, which nothing fixes.
Dicts(pairs) ==
    {f \in [{p[1] : p \in pairs} -> {p[2] : p \in pairs}] :
        \A k \in DOMAIN f : <<k, f[k]>> \in pairs}

\* build, lines 98-99: groupByKey().mapValues(dict), every way it can come out:
\* the set of functions document id -> dict
RECURSIVE GroupedDicts(_, _)
GroupedDicts(mapped, keys) ==
    IF keys = {} THEN {<<>>}
    ELSE LET k == CHOOSE x \in keys : TRUE
             ds == Dicts({e[2] : e \in {x \in DOMAIN mapped : x[1] = k}})
         IN {g[1] @@ (k :> g[2]) : g \in GroupedDicts(mapped, keys \ {k}) \X ds}

\* build, lines 88-91
map_doc_links(links, lookup) == [i \in DOMAIN links |-> lookup[links[i]]]

\* build, lines 100-101 with the documents on the left of a left outer join,
\* a document without lookup kept as it is
RedirectDocuments_build_keepall(c, grouped) ==
    BagOfAll(LAMBDA x : <<x[1], IF x[1] \in DOMAIN grouped
                                THEN map_doc_links(x[2], grouped[x[1]])
                                ELSE x[2]>>,
             articles(c))

\* build, lines 100-101: .join(articles).map(map_doc_links)
RedirectDocuments_build(c, grouped) ==
    BagOfAll(LAMBDA x : <<x[1], map_doc_links(x[2][2], x[2][1])>>,
             Join(SetToBag({<<d, grouped[d]>> : d \in DOMAIN grouped}), articles(c)))

\* Documents, links and redirect records loaded.
MaxDocInput == 4

DocInput ==
    Cardinality(DOMAIN corpus)
        + SumOver([d \in DOMAIN corpus |-> Len(corpus[d])], DOMAIN corpus)
        + BagCardinality(redirects)

InitDocs ==
    /\ pc = "prepare"
    /\ corpus = <<>>
    /\ redirects = EmptyBag
    /\ redirected = EmptyBag
    /\ RedirectsIdle /\ VocabIdle /\ NgramsIdle

\* the corpus holds one more document, without links yet
AddDoc(d) ==
    /\ pc = "prepare"
    /\ DocInput < MaxDocInput
    /\ d \notin DOMAIN corpus
    /\ corpus' = corpus @@ (d :> <<>>)
    /\ UNCHANGED <<pc, rvars, dvars, vvars, nvars>>

\* a document of the corpus holds one more link
AddLink(d, t) ==
    /\ pc = "prepare"
    /\ DocInput < MaxDocInput
    /\ d \in DOMAIN corpus
    /\ corpus' = [corpus EXCEPT ![d] = Append(@, t)]
    /\ UNCHANGED <<pc, rvars, dvars, vvars, nvars>>

\* prepare: one more record of the redirects
LoadRedirect(e) ==
    /\ pc = "prepare"
    /\ DocInput < MaxDocInput
    /\ redirects' = redirects (+) SetToBag({e})
    /\ UNCHANGED <<pc, corpus, rvars, redirected, vvars, nvars>>

BuildDocs ==
    /\ pc = "prepare"
    /\ LET mapped == redirect_pairs(corpus, redirects)
       IN \E grouped \in GroupedDicts(mapped, {e[1] : e \in DOMAIN mapped}) :
              redirected' = RedirectDocuments_build(corpus, grouped)
    /\ pc' = "done"
    /\ UNCHANGED <<corpus, redirects, rvars, vvars, nvars>>

NextDocs ==
    \/ \E d \in DocIds : AddDoc(d)
    \/ \E d \in DocIds, t \in Ids : AddLink(d, t)
    \/ \E e \in Ids \X Ids : LoadRedirect(e)
    \/ BuildDocs

SpecDocs == InitDocs /\ [][NextDocs]_vars

(***************************************************************************)
(* RedirectDocuments: properties                                           *)
(***************************************************************************)
\* at most one target per source
Functional(r) == \A e, x \in DOMAIN r : e[1] = x[1] => e[2] = x[2]

\* the number of documents of the output with id d
Copies(d) ==
    LET recs == {x \in DOMAIN redirected : x[1] = d}
    IN SumOver([x \in recs |-> redirected[x]], recs)

\* C4 (as stated): with at most one target per source in the mapping, the
\* output has exactly one document for each document of the corpus, empty
\* links list or not, and in it every link target t is the mapping's target
\* for t when t is a source of the mapping, and t otherwise.
C4_EveryDocumentRewritten ==
    (pc = "done" /\ Functional(redirects)) =>
        \A d \in DOMAIN corpus :
            /\ Copies(d) = 1
            /\ \E x \in DOMAIN redirected :
                  /\ x[1] = d
                  /\ Len(x[2]) = Len(corpus[d])
                  /\ \A i \in DOMAIN x[2] :
                        IF \E e \in DOMAIN redirects : e[1] = corpus[d][i]
                        THEN <<corpus[d][i], x[2][i]>> \in DOMAIN redirects
                        ELSE x[2][i] = corpus[d][i]

\* C4 (amended): with at most one target per source in the mapping, the
\* output has exactly one document for each document of the corpus whose
\* links list is not empty and none for a document whose links list is
\* empty, and no other document; in it every link target t is the mapping's
\* target for t when t is a source of the mapping with a non-empty target,
\* and t otherwise.
C4_LinkedDocumentsRewritten ==
    (pc = "done" /\ Functional(redirects)) =>
        /\ \A x \in DOMAIN redirected : x[1] \in DOMAIN corpus
        /\ \A d \in DOMAIN corpus :
              IF corpus[d] = <<>>
              THEN Copies(d) = 0
              ELSE /\ Copies(d) = 1
                   /\ \E x \in DOMAIN redirected :
                         /\ x[1] = d
                         /\ Len(x[2]) = Len(corpus[d])
                         /\ \A i \in DOMAIN x[2] :
                               IF \E e \in DOMAIN redirects :
                                      e[1] = corpus[d][i] /\ e[2] # ""
                               THEN <<corpus[d][i], x[2][i]>> \in DOMAIN redirects
                               ELSE x[2][i] = corpus[d][i]

C4_Witness ==
    /\ pc = "done"
    /\ Functional(redirects)
    /\ \E d \in DOMAIN corpus : corpus[d] = <<>> /\ Copies(d) = 0
    /\ \E d \in DOMAIN corpus :
          /\ Copies(d) = 1
          /\ \E i \in DOMAIN corpus[d] :
                /\ \E e \in DOMAIN redirects :
                      e[1] = corpus[d][i] /\ e[2] \notin {"", e[1]}
                /\ <<d, corpus[d]>> \notin DOMAIN redirected

(***************************************************************************)
(* EntityCounts and EntityVocab                                            *)
(*                                                                         *)
(* A document is here its list of link targets, each a string: a sequence  *)
(* of characters.                                                          *)
(***************************************************************************)
RawTargets ==
    { <<"A">>, <<"B">>, <<"C">>, <<"A", "#", "s">>, <<"w", ":", "/", "/", "B">> }

\* Python's None for an optional integer is <<>>, the integer n is <<n>>.
None == <<>>
Some(n) == <<n>>

\* s.find(pat): the first 0-based index at which pat occurs in s, -1 if none
Find(s, pat) ==
    LET hits == {i \in 0..(Len(s) - Len(pat)) : SubSeq(s, i + 1, i + Len(pat)) = pat}
    IN IF hits = {} THEN -1 ELSE CHOOSE i \in hits : \A j \in hits : i <= j

\* sift.util.trim_link_subsection: the target without its '#' fragment
trim_link_subsection(s) ==
    LET idx == Find(s, <<"#">>) IN IF idx = -1 THEN s ELSE SubSeq(s, 1, idx)

\* sift.util.trim_link_protocol: the target without its '://' prefix
trim_link_protocol(s) ==
    LET idx == Find(s, <<":", "/", "/">>)
    IN IF idx = -1 THEN s ELSE SubSeq(s, idx + 4, Len(s))

\* s.startswith(prefix)
StartsWith(s, prefix) ==
    Len(prefix) <= Len(s) /\ SubSeq(s, 1, Len(prefix)) = prefix

\* the links of the corpus, one position for each
LinkPositions(c) == UNION {{<<d, i>> : i \in DOMAIN c[d]} : d \in DOMAIN c}

\* EntityCounts.build, lines 21-28: the normalized targets of all the links
EntityCounts_links(c, ft) ==
    LET links == BagOfAll(LAMBDA p : trim_link_protocol(trim_link_subsection(c[p[1]][p[2]])),
                          SetToBag(LinkPositions(c)))
    IN IF ft # <<>> THEN Filter(links, {l \in DOMAIN links : StartsWith(l, ft)})
                    ELSE links

\* EntityCounts.build, lines 30-33: .map((l, 1)).reduceByKey(add).filter(c > threshold)
EntityCounts_build(c, thr, ft) ==
    LET links == EntityCounts_links(c, ft)
        reduced == SetToBag({<<l, links[l]>> : l \in DOMAIN links})
    IN Filter(reduced, {r \in DOMAIN reduced : r[2] > thr})

\* The orders in which the records of an RDD can come: the engine fixes none.
Orders(B) ==
    {s \in [1..Cardinality(DOMAIN B) -> DOMAIN B] : Range(s) = DOMAIN B}

\* the place of x in a sequence sorted by key: behind the records that go
\* before it or tie with it
InsertByKey(sorted, x, ascending) ==
    LET k == Cardinality({i \in DOMAIN sorted :
                            IF ascending THEN sorted[i][1] <= x[1]
                                         ELSE sorted[i][1] >= x[1]})
    IN SubSeq(sorted, 1, k) \o <<x>> \o SubSeq(sorted, k + 1, Len(sorted))

\* rdd.sortByKey(ascending) of the records in the order seq
RECURSIVE sortByKey(_, _)
sortByKey(seq, ascending) ==
    IF seq = <<>> THEN <<>>
    ELSE InsertByKey(sortByKey(SubSeq(seq, 1, Len(seq) - 1), ascending),
                     seq[Len(seq)], ascending)

\* rdd.zipWithIndex()
zipWithIndex(seq) == [i \in DOMAIN seq |-> <<seq[i], i - 1>>]

\* EntityVocab.build, lines 187-190, sorting by ascending count
EntityVocab_ranked_ascending(order) ==
    LET z == zipWithIndex(sortByKey(order, TRUE))
    IN BagOfAll(LAMBDA i : <<z[i][1][2], <<z[i][1][1], z[i][2]>>>>, SetToBag(DOMAIN z))

\* EntityVocab.build, lines 187-190: (count, target) sorted by descending count,
\* indexed, turned into (target, (count, index)); order is the order in which
\* the (count, target) records reach the sort
EntityVocab_ranked(order) ==
    LET z == zipWithIndex(sortByKey(order, FALSE))
    IN BagOfAll(LAMBDA i : <<z[i][1][2], <<z[i][1][1], z[i][2]>>>>, SetToBag(DOMAIN z))

\* EntityVocab.build, lines 192-195, with idx <= max_rank
EntityVocab_window_closed(m, lo, hi) ==
    LET m1 == IF lo # None THEN Filter(m, {r \in DOMAIN m : r[2][2] >= lo[1]}) ELSE m
    IN IF hi # None THEN Filter(m1, {r \in DOMAIN m1 : r[2][2] <= hi[1]}) ELSE m1

\* EntityVocab.build, lines 192-195: the rank filters
EntityVocab_window(m, lo, hi) ==
    LET m1 == IF lo # None THEN Filter(m, {r \in DOMAIN m : r[2][2] >= lo[1]}) ELSE m
    IN IF hi # None THEN Filter(m1, {r \in DOMAIN m1 : r[2][2] < hi[1]}) ELSE m1

\* Documents and links loaded.
MaxVocabInput == 4

VocabInput ==
    Cardinality(DOMAIN corpus)
        + SumOver([d \in DOMAIN corpus |-> Len(corpus[d])], DOMAIN corpus)

Thresholds == {0, 1}
FilterTargets == {<<>>, <<"A">>}
MinRanks == {None, Some(0), Some(1)}
MaxRanks == {None, Some(1), Some(2)}

InitVocab ==
    /\ pc = "prepare"
    /\ corpus = <<>>
    /\ threshold \in Thresholds
    /\ filter_target \in FilterTargets
    /\ min_rank \in MinRanks
    /\ max_rank \in MaxRanks
    /\ counts = EmptyBag
    /\ ranked = EmptyBag
    /\ vocab = EmptyBag
    /\ RedirectsIdle /\ DocsIdle /\ NgramsIdle

\* the corpus holds one more document, without links yet
AddVocabDoc(d) ==
    /\ pc = "prepare"
    /\ VocabInput < MaxVocabInput
    /\ d \notin DOMAIN corpus
    /\ corpus' = corpus @@ (d :> <<>>)
    /\ UNCHANGED <<pc, rvars, dvars, vvars, nvars>>

\* a document of the corpus holds one more link
AddVocabLink(d, t) ==
    /\ pc = "prepare"
    /\ VocabInput < MaxVocabInput
    /\ d \in DOMAIN corpus
    /\ corpus' = [corpus EXCEPT ![d] = Append(@, t)]
    /\ UNCHANGED <<pc, rvars, dvars, vvars, nvars>>

\* EntityVocab.build, which starts with EntityCounts.build (line 185)
BuildVocab ==
    /\ pc = "prepare"
    /\ LET c == EntityCounts_build(corpus, threshold, filter_target)
       IN /\ counts' = c
          /\ \E order \in Orders(BagOfAll(LAMBDA r : <<r[2], r[1]>>, c)) :
                /\ ranked' = EntityVocab_ranked(order)
                /\ vocab' = EntityVocab_window(EntityVocab_ranked(order),
                                               min_rank, max_rank)
    /\ pc' = "done"
    /\ UNCHANGED <<corpus, vparams, rvars, dvars, nvars>>

NextVocab ==
    \/ \E d \in DocIds : AddVocabDoc(d)
    \/ \E d \in DocIds, t \in RawTargets : AddVocabLink(d, t)
    \/ BuildVocab

SpecVocab == InitVocab /\ [][NextVocab]_vars

(***************************************************************************)
(* EntityCounts and EntityVocab: properties                                *)
(***************************************************************************)
\* the entities that pass the count threshold
Entities == {r[1] : r \in DOMAIN counts}

\* the entries of a vocabulary with rank r
WithRank(m, r) == {e \in DOMAIN m : e[2][2] = r}

NoRankWindow ==
    /\ min_rank \in {None, Some(0)}
    /\ max_rank = None \/ max_rank[1] >= Cardinality(Entities)

\* C6: without an effective rank window the vocabulary has exactly the N
\* entities that pass the threshold, each with its count from EntityCounts,
\* each rank of 0..N-1 is used exactly once, and a smaller rank never has a
\* smaller count.
C6_RanksArePermutation ==
    (pc = "done" /\ NoRankWindow) =>
        /\ {<<e[1], e[2][1]>> : e \in DOMAIN vocab} = DOMAIN counts
        /\ \A e \in DOMAIN vocab : e[2][2] \in 0..(Cardinality(Entities) - 1)
        /\ \A r \in 0..(Cardinality(Entities) - 1) :
              /\ Cardinality(WithRank(vocab, r)) = 1
              /\ \A e \in WithRank(vocab, r) : vocab[e] = 1
        /\ \A e, x \in DOMAIN vocab : e[2][2] < x[2][2] => e[2][1] >= x[2][1]

C6_Witness ==
    /\ pc = "done"
    /\ NoRankWindow
    /\ max_rank # None
    /\ Cardinality(Entities) = 2
    /\ \E e, x \in DOMAIN vocab : e[2][1] > x[2][1] /\ e[2][2] = 0 /\ x[2][2] = 1

\* C7: with a rank window [min_rank, max_rank) the vocabulary is exactly the
\* entries of the unfiltered vocabulary whose rank r has
\* min_rank <= r < max_rank, count and rank unchanged; it is empty when
\* min_rank >= max_rank.
C7_RankWindow ==
    (pc = "done" /\ min_rank # None /\ max_rank # None) =>
        /\ DOMAIN vocab =
              {e \in DOMAIN ranked : min_rank[1] <= e[2][2] /\ e[2][2] < max_rank[1]}
        /\ \A e \in DOMAIN vocab : vocab[e] = ranked[e]
        /\ min_rank[1] >= max_rank[1] => vocab = EmptyBag

C7_Witness ==
    /\ pc = "done"
    /\ min_rank = Some(1) /\ max_rank = Some(2)
    /\ Cardinality(DOMAIN ranked) = 3
    /\ Cardinality(DOMAIN vocab) = 1

\* the documents with at least one link whose normalized target is the term
DocumentsLinking(term) ==
    {d \in DOMAIN corpus :
        \E i \in DOMAIN corpus[d] :
            trim_link_protocol(trim_link_subsection(corpus[d][i])) = term}

\* C8 (as stated): the count of a term is the number of distinct documents
\* with at least one link whose normalized target is the term, and the term
\* is in the output iff this number is greater than the threshold.
C8_CountIsDocumentFrequency ==
    pc = "done" =>
        LET terms == DOMAIN EntityCounts_links(corpus, filter_target)
        IN DOMAIN counts =
              {<<t, Cardinality(DocumentsLinking(t))>> :
                  t \in {u \in terms : Cardinality(DocumentsLinking(u)) > threshold}}

(***************************************************************************)
(* NamePartCounts                                                          *)
(*                                                                         *)
(* A document is here [text, links]: the text a sequence of tokens, a link *)
(* the span <<start, stop>> of its anchor, in tokens from 0, stop not      *)
(* included.  A term is a sequence of tokens.                              *)
(***************************************************************************)
Tokens == {"a", "A", "b"}

\* str.lower(), token by token
Lower(tok) == IF tok = "A" THEN "a" ELSE tok

\* text[start:stop] for start, stop >= 0
Slice(text, start, stop) ==
    SubSeq(text, start + 1, IF stop < Len(text) THEN stop ELSE Len(text))

\* the bag of the records a generator yields
SeqToBag(seq) == BagOfAll(LAMBDA i : seq[i], SetToBag(DOMAIN seq))

\* rdd.flatMap(f), f[e] the bag of records f yields for the record e
FlatMap(f, B) ==
    LET dom == UNION {DOMAIN f[e] : e \in DOMAIN B}
    IN [y \in dom |->
          SumOver([e \in DOMAIN B |-> IF y \in DOMAIN f[e] THEN B[e] * f[e][y] ELSE 0],
                  DOMAIN B)]

\* rdd.map(lambda x: (x, 1)).reduceByKey(add)
CountByValue(B) == SetToBag({<<x, B[x]>> : x \in DOMAIN B})

\* the n-grams of k tokens of s, from left to right
NgramsOfSize(s, k) == [i \in 1..(Len(s) - k + 1) |-> SubSeq(s, i, i + k - 1)]

\* sift.util.ngrams(s, n, n_min): the n-grams of n_min..n tokens of s
RECURSIVE ngrams(_, _, _)
ngrams(s, n, n_min) ==
    IF n_min > n THEN <<>>
    ELSE NgramsOfSize(s, n_min) \o ngrams(s, n, n_min + 1)

\* NamePartCounts.iter_anchors, lines 107-113: the bag of anchors of a document
iter_anchors(doc, lower) ==
    LET anchor(l) == LET a == Slice(doc.text, l[1], l[2])
                     IN IF lower THEN [i \in DOMAIN a |-> Lower(a[i])] ELSE a
        anchors == BagOfAll(LAMBDA i : anchor(doc.links[i]), SetToBag(DOMAIN doc.links))
    IN Filter(anchors, {a \in DOMAIN anchors : a # <<>>})

\* NamePartCounts.iter_span_count_types, lines 116-122: the bag of <<part, tag>>
iter_span_count_types(anchor, n) ==
    LET parts == ngrams(anchor, n, n)
    IN IF parts # <<>>
       THEN SetToBag({<<parts[1], "B">>}) (+) SetToBag({<<parts[Len(parts)], "E">>})
               (+) SeqToBag([i \in 1..(Len(parts) - 2) |-> <<parts[i + 1], "I">>])
       ELSE EmptyBag

\* build, line 127: the spans of an anchor for the sizes 1..max_ngram
RECURSIVE anchor_spans(_, _)
anchor_spans(anchor, n) ==
    IF n = 0 THEN EmptyBag
    ELSE anchor_spans(anchor, n - 1) (+) iter_span_count_types(anchor, n)

\* build, lines 125-130: <<term, <<tag, count>>>> for the anchor positions
anchor_part_counts(docs, n, lower) ==
    LET anchors == FlatMap([d \in DOMAIN docs |-> iter_anchors(d[2], lower)], docs)
        spans == FlatMap([a \in DOMAIN anchors |-> anchor_spans(a, n)], anchors)
    IN BagOfAll(LAMBDA r : <<r[1][1], <<r[1][2], r[2]>>>>, CountByValue(spans))

\* build, lines 132-137 keeping the n-grams that occur once (c > 0)
text_part_counts_all(docs, n) ==
    LET reduced == CountByValue(FlatMap([d \in DOMAIN docs |->
                                            SeqToBag(ngrams(d[2].text, n, n))], docs))
    IN BagOfAll(LAMBDA r : <<r[1], <<"O", r[2]>>>>,
                Filter(reduced, {r \in DOMAIN reduced : r[2] > 0}))

\* build, lines 132-137: <<term, <<"O", count>>>> for the n-grams of the texts
\* that occur more than once; ngrams(text, max_ngram) yields those of
\* max_ngram tokens
text_part_counts(docs, n) ==
    LET reduced == CountByValue(FlatMap([d \in DOMAIN docs |->
                                            SeqToBag(ngrams(d[2].text, n, n))], docs))
    IN BagOfAll(LAMBDA r : <<r[1], <<"O", r[2]>>>>,
                Filter(reduced, {r \in DOMAIN reduced : r[2] > 1}))

\* groupByKey().mapValues(dict), lines 140-141; a term has each tag once
GroupedCounts(B) ==
    SetToBag({<<t, [tag \in {e[2][1] : e \in {x \in DOMAIN B : x[1] = t}} |->
                       (CHOOSE e \in DOMAIN B : e[1] = t /\ e[2][1] = tag)[2][2]]>> :
                 t \in {e[1] : e \in DOMAIN B}})

\* NamePartCounts.build, lines 124-142
NamePartCounts_build(docs, n, lower) ==
    LET grouped == GroupedCounts(anchor_part_counts(docs, n, lower)
                                    (+) text_part_counts(docs, n))
    IN Filter(grouped, {r \in DOMAIN grouped :
                          "O" \in DOMAIN r[2] /\ Cardinality(DOMAIN r[2]) > 1})

\* Documents, tokens and links loaded.
MaxNgramInput == 5

NgramInput ==
    Cardinality(DOMAIN corpus)
        + SumOver([d \in DOMAIN corpus |-> Len(corpus[d].text) + Len(corpus[d].links)],
                  DOMAIN corpus)

MaxNgrams == {1, 2}

InitNgrams ==
    /\ pc = "prepare"
    /\ corpus = <<>>
    /\ max_ngram \in MaxNgrams
    /\ lowercase \in BOOLEAN
    /\ part_counts = EmptyBag
    /\ RedirectsIdle /\ DocsIdle /\ VocabIdle

\* the corpus holds one more document, empty yet
AddTextDoc(d) ==
    /\ pc = "prepare"
    /\ NgramInput < MaxNgramInput
    /\ d \notin DOMAIN corpus
    /\ corpus' = corpus @@ (d :> [text |-> <<>>, links |-> <<>>])
    /\ UNCHANGED <<pc, rvars, dvars, vvars, nvars>>

\* the text of a document holds one more token
AddToken(d, tok) ==
    /\ pc = "prepare"
    /\ NgramInput < MaxNgramInput
    /\ d \in DOMAIN corpus
    /\ corpus' = [corpus EXCEPT ![d].text = Append(@, tok)]
    /\ UNCHANGED <<pc, rvars, dvars, vvars, nvars>>

\* a document holds one more link, its span within the text so far
AddSpan(d, start, stop) ==
    /\ pc = "prepare"
    /\ NgramInput < MaxNgramInput
    /\ d \in DOMAIN corpus
    /\ start <= Len(corpus[d].text) /\ stop <= Len(corpus[d].text)
    /\ corpus' = [corpus EXCEPT ![d].links = Append(@, <<start, stop>>)]
    /\ UNCHANGED <<pc, rvars, dvars, vvars, nvars>>

BuildNgrams ==
    /\ pc = "prepare"
    /\ part_counts' =
          NamePartCounts_build(SetToBag({<<d, corpus[d]>> : d \in DOMAIN corpus}),
                               max_ngram, lowercase)
    /\ pc' = "done"
    /\ UNCHANGED <<corpus, max_ngram, lowercase, rvars, dvars, vvars>>

NextNgrams ==
    \/ \E d \in DocIds : AddTextDoc(d)
    \/ \E d \in DocIds, tok \in Tokens : AddToken(d, tok)
    \/ \E d \in DocIds, start, stop \in 0..MaxNgramInput : AddSpan(d, start, stop)
    \/ BuildNgrams

SpecNgrams == InitNgrams /\ [][NextNgrams]_vars

(***************************************************************************)
(* NamePartCounts: properties                                              *)
(***************************************************************************)
\* the anchors of the corpus, as iter_anchors reads them
Anchors ==
    UNION {{LET a == Slice(corpus[d].text, corpus[d].links[i][1], corpus[d].links[i][2])
            IN IF lowercase THEN [j \in DOMAIN a |-> Lower(a[j])] ELSE a :
                i \in DOMAIN corpus[d].links} : d \in DOMAIN corpus} \ {<<>>}

\* the term is at an anchor position: it is an n-gram, of 1..max_ngram tokens,
\* of an anchor
AtAnchorPosition(term) ==
    /\ Len(term) \in 1..max_ngram
    /\ \E a \in Anchors : \E i \in 1..Len(a) :
          i + Len(term) - 1 <= Len(a) /\ SubSeq(a, i, i + Len(term) - 1) = term

\* the background count: the places of the texts where the term stands, for
\* a term of max_ngram tokens
BackgroundCount(term) ==
    IF Len(term) # max_ngram THEN 0
    ELSE Cardinality({p \in (DOMAIN corpus) \X (1..MaxNgramInput) :
                        /\ p[2] + Len(term) - 1 <= Len(corpus[p[1]].text)
                        /\ SubSeq(corpus[p[1]].text, p[2], p[2] + Len(term) - 1) = term})

Terms == UNION {[1..k -> Tokens] : k \in 1..2}

\* C9: a term is in the output iff its background ('O') count over the texts
\* is greater than 1 and it has at least one anchor-position count ('B',
\* 'E' or 'I'); the output then holds it once, with its 'O' count.
C9_BackgroundAndAnchor ==
    pc = "done" =>
        /\ {r[1] : r \in DOMAIN part_counts} =
              {t \in Terms : BackgroundCount(t) > 1 /\ AtAnchorPosition(t)}
        /\ \A r \in DOMAIN part_counts :
              /\ part_counts[r] = 1
              /\ r[2]["O"] = BackgroundCount(r[1])
              /\ DOMAIN r[2] \cap {"B", "E", "I"} # {}

C9_Witness ==
    /\ pc = "done"
    /\ \E r \in DOMAIN part_counts : r[2]["O"] = 2 /\ "B" \in DOMAIN r[2]
    /\ \E t \in Terms : BackgroundCount(t) = 1 /\ AtAnchorPosition(t)

====
